---- MODULE Spec2Model ----
(***************************************************************************)
(* Model of the background scheduler, backoff controller and run store of  *)
(* src/web_app.py: the module globals, the worker thread running           *)
(* _scheduler_loop, and the request handlers (index, control, history)     *)
(* that call _start_scheduler, _stop_scheduler and _run_once.              *)
(*                                                                         *)
(* Threads take one step per source statement that reads or writes a       *)
(* module global.  The length of a wait on the stop event is not modelled: *)
(* a wait returns either because the event it waits on is set or because   *)
(* its timeout elapsed, which may happen at any later step.                *)
(***************************************************************************)
EXTENDS Integers, Sequences, FiniteSets, TLC

\* ---------------------------------------------------------------- bounds
MaxWorkers == 2
MaxRequests == 3
MaxRuns == 1
MaxNow == 3600
MaxCalls == 3
MaxStoreNow == 600
MaxBuckets == 4

Workers == 1..MaxWorkers
Callers == {1, 2}
TickSteps == {3600}
StoreTickSteps == {240, 600}

\* ------------------------------------------------------- program constants
DefaultBackoffSeconds == 3600
None == -1
NoMatch == <<"<no match>">>
ValueError == -2

\* ------------------------------------------------------- character strings
\* A Python str is a sequence of one-character strings.
Digits == {"0", "1", "2", "3", "4", "5", "6", "7", "8", "9"}

M429 == <<"4", "2", "9">>
MExhausted == <<"R", "e", "s", "o", "u", "r", "c", "e", " ", "h", "a", "s", " ",
                "b", "e", "e", "n", " ", "e", "x", "h", "a", "u", "s", "t", "e", "d">>
MRetryIn == <<"R", "e", "t", "r", "y", " ", "i", "n", " ">>
MSeconds == <<" ", "s", "e", "c", "o", "n", "d", "s">>
MSp == <<" ">>

\* messages of the exceptions that _run_once can raise
MsgTimeout == <<"t", "i", "m", "e", "o", "u", "t">>
MsgLocked == <<"l", "o", "c", "k", "e", "d">>
Msg429 == <<"H", "T", "T", "P", " ">> \o M429
MsgExhausted == MExhausted
Msg429Retry120 == M429 \o MSp \o MRetryIn \o <<"1", "2", "0">> \o MSeconds
MsgExhaustedRetry45 == MExhausted \o MSp \o MRetryIn \o <<"4", "5">> \o MSeconds
MsgRetry7NoMarker == MRetryIn \o <<"7">> \o MSeconds
Msg429RetryLiteral == M429 \o MSp \o MRetryIn \o <<"\\", "d">> \o MSeconds

FetchMessages == {MsgTimeout, Msg429, MsgExhausted, Msg429Retry120,
                  MsgExhaustedRetry45, MsgRetry7NoMarker, Msg429RetryLiteral}
StoreMessages == {MsgLocked}

\* s[i..] starts with pat
MatchAt(s, pat, i) ==
    /\ i + Len(pat) - 1 <= Len(s)
    /\ \A k \in 1..Len(pat) : s[i + k - 1] = pat[k]

\* Python `pat in s`
Contains(s, pat) == \E i \in 1..(Len(s) + 1) : MatchAt(s, pat, i)

\* number of consecutive "d" characters of s from position i on
RECURSIVE RunOfD(_, _)
RunOfD(s, i) == IF i <= Len(s) /\ s[i] = "d" THEN 1 + RunOfD(s, i + 1) ELSE 0

\* The pattern r"Retry in (\\d+) seconds" at position i: the literal text
\* "Retry in ", a backslash, one or more letters d (greedy, backtracking),
\* then " seconds".  The value is the number of d's matched, 0 for no match.
ReMatchAt(s, i) ==
    IF ~MatchAt(s, MRetryIn, i) THEN 0
    ELSE LET b == i + Len(MRetryIn) IN
         IF ~(b <= Len(s) /\ s[b] = "\\") THEN 0
         ELSE LET ks == {k \in 1..RunOfD(s, b + 1) : MatchAt(s, MSeconds, b + 1 + k)} IN
              IF ks = {} THEN 0 ELSE CHOOSE k \in ks : \A j \in ks : j <= k

\* re.search(...).group(1) for the leftmost match, NoMatch when there is none
ReSearchGroup(s) ==
    LET starts == {i \in 1..Len(s) : ReMatchAt(s, i) > 0} IN
    IF starts = {} THEN NoMatch
    ELSE LET i == CHOOSE i \in starts : \A j \in starts : i <= j
             b == i + Len(MRetryIn)
         IN SubSeq(s, b, b + ReMatchAt(s, i))

DigitVal(c) ==
    CASE c = "0" -> 0 [] c = "1" -> 1 [] c = "2" -> 2 [] c = "3" -> 3 [] c = "4" -> 4
      [] c = "5" -> 5 [] c = "6" -> 6 [] c = "7" -> 7 [] c = "8" -> 8 [] c = "9" -> 9

RECURSIVE DecValue(_)
DecValue(s) == IF s = <<>> THEN 0
               ELSE 10 * DecValue(SubSeq(s, 1, Len(s) - 1)) + DigitVal(s[Len(s)])

\* int(text): the decimal value of a string of digits, ValueError otherwise
PyInt(s) == IF s # <<>> /\ \A k \in 1..Len(s) : s[k] \in Digits
            THEN DecValue(s) ELSE ValueError

\* a text that int() accepts: an optional sign and
\* decimal digits
IsIntText(t) ==
    LET body == IF t # <<>> /\ t[1] \in {"+", "-"} THEN Tail(t) ELSE t
    IN body # <<>> /\ \A k \in 1..Len(body) : body[k] \in Digits

IntValue(t) ==
    IF t[1] = "-" THEN 0 - DecValue(Tail(t))
    ELSE IF t[1] = "+" THEN DecValue(Tail(t))
    ELSE DecValue(t)

\* IsRateLimited with the test for "429" alone
IsRateLimitedOnly429(message) == Contains(message, M429)

\* _apply_backoff: the negation of the test that makes it return at once
IsRateLimited(message) == Contains(message, MExhausted) \/ Contains(message, M429)

\* _apply_backoff(ex) run at time t with deadline cur: the new deadline and
\* whether the call itself raised
ApplyBackoff(message, t, cur) ==
    IF ~IsRateLimited(message) THEN [until |-> cur, raised |-> FALSE]
    ELSE LET g == ReSearchGroup(message) IN
         IF g = NoMatch
         THEN [until |-> t + DefaultBackoffSeconds, raised |-> FALSE]
         ELSE IF PyInt(g) = ValueError
              THEN [until |-> cur, raised |-> TRUE]
              ELSE [until |-> t + PyInt(g), raised |-> FALSE]

\* ------------------------------------------------------------------ state
VARIABLES
    now,            \* datetime.now(), in seconds
    envEnabled,     \* os.environ GOOGLE_ADS_SCHEDULER_ENABLED == "1"
    envCustomer,    \* os.environ GOOGLE_ADS_DEFAULT_CUSTOMER_ID ("" when unset)
    envDays,        \* os.environ GOOGLE_ADS_HISTORY_DAYS ("30" when unset)
    schedEnabled,   \* SCHEDULER_ENABLED
    schedDays,      \* SCHEDULER_DAYS
    forced,         \* _scheduler_forced_enabled
    started,        \* _scheduler_started
    curEvent,       \* the Event object bound to _scheduler_stop_event
    setEvents,      \* the Event objects whose flag is set
    backoffUntil,   \* _scheduler_backoff_until (None or seconds)
    runs,           \* table runs with its campaigns rows, in insertion order
    nextId,         \* the AUTOINCREMENT counter of runs.id
    txn,            \* the open write transaction on the database: <<>> or
                    \* <<[owner, run]>> with the rows inserted so far
    wpc,            \* worker threads: position in _scheduler_loop
    wEvent,         \* worker threads: the Event object a wait() was called on
    wRows,          \* worker threads: the local `rows` of _run_once
    wErr,           \* worker threads: str(ex) of the exception being handled
    born,           \* worker threads: the Event object bound when the thread started
    cpc,            \* request threads: position in the handler
    cAction,        \* request threads: route or form action
    cCustomer,      \* request threads: the local customer_id
    cRows,          \* request threads: the local `rows` of _run_once
    cMessage,       \* request threads: the response
    requests,       \* number of requests received
    stopReturned,   \* history: a _stop_scheduler() has returned and no
                    \* _start_scheduler() was called since
    calls,          \* store caller: number of _persist_run calls made
    succeeded,      \* store caller: number of those calls that returned
    ipc,            \* store caller: position in _persist_run
    iArgs,          \* store caller: the arguments of the call under way
    iResult,        \* store caller: how the last call ended
    rpc,            \* reader: position in the read function it runs
    rOp,            \* reader: the read function and its arguments
    rValue          \* reader: what its statements have returned so far

vars == <<now, envEnabled, envCustomer, envDays, schedEnabled, schedDays, forced,
          started, curEvent, setEvents, backoffUntil, runs, nextId, txn, wpc, wEvent, wRows, wErr,
          born, cpc, cAction, cCustomer, cRows, cMessage, requests, stopReturned,
          calls, succeeded, ipc, iArgs, iResult, rpc, rOp, rValue>>

globalVars == <<schedEnabled, schedDays, forced, started, curEvent, setEvents, backoffUntil>>
envVars == <<now, envEnabled, envCustomer, envDays>>
storeVars == <<runs, nextId, txn>>
workerVars == <<wpc, wEvent, wRows, wErr, born>>
callerVars == <<cpc, cAction, cCustomer, cRows, cMessage, requests>>
apiVars == <<calls, succeeded, ipc, iArgs, iResult, rpc, rOp, rValue>>
schedulerVars == <<envEnabled, envCustomer, envDays, globalVars, workerVars, callerVars,
                   stopReturned>>

\* SCHEDULER_DAYS, read where _run_once is called.  Every load of the
\* configuration gives it the same value and a load precedes every call of
\* _run_once, so the value a call was given is the value of the global.
SCHEDULER_DAYS == schedDays
DefaultDays == 30
DefaultDaysText == <<"3", "0">>
DaysTexts == {<<"3", "0">>, <<"7">>, <<"0">>, <<"-", "7">>}
NoEvent == 0
NoRows == <<"<none>">>
NoError == <<"<no exception>">>

ViewRoutes == {"index", "history"}
FormCustomers == {"", "123"}
FetchResults == {<<"A">>}

\* RowsWithTotal adding no row
RowsWithoutTotal(rows) == rows

\* ads._rows_with_total: the fetched rows followed by the TOTAL row
RowsWithTotal(rows) == Append(rows, "TOTAL")

\* _scheduler_is_enabled()
SchedulerIsEnabled == schedEnabled \/ forced

BackoffActive == backoffUntil # None /\ now < backoffUntil

InRunOnceW == {w \in Workers : wpc[w] \in {"fetching", "persist", "inserting"}}
InRunOnceC == {c \in Callers : cpc[c] \in {"m_fetching", "m_persist", "m_inserting"}}
AliveWorkers == {w \in Workers : wpc[w] \notin {"unborn", "exited", "dead"}}
Spawned == {w \in Workers : wpc[w] # "unborn"}

\* room left in the runs table for the fetches that may still succeed
StoreHasRoom ==
    Len(runs) + Cardinality({w \in Workers : wpc[w] \in {"persist", "inserting"}})
              + Cardinality({c \in Callers : cpc[c] \in {"m_persist", "m_inserting"}})
      < MaxRuns

\* everything but the run store
InitScheduler ==
    /\ now = 0
    /\ envEnabled \in BOOLEAN
    /\ envCustomer \in {"", "123"}
    /\ schedEnabled = TRUE
    /\ schedDays = DefaultDays
    /\ forced = FALSE
    /\ started = FALSE
    /\ curEvent = 1
    /\ setEvents = {}
    /\ backoffUntil = None
    /\ wpc = [w \in Workers |-> "unborn"]
    /\ wEvent = [w \in Workers |-> NoEvent]
    /\ wRows = [w \in Workers |-> NoRows]
    /\ wErr = [w \in Workers |-> NoError]
    /\ born = [w \in Workers |-> NoEvent]
    /\ cpc = [c \in Callers |-> "idle"]
    /\ cAction = [c \in Callers |-> ""]
    /\ cCustomer = [c \in Callers |-> ""]
    /\ cRows = [c \in Callers |-> NoRows]
    /\ cMessage = [c \in Callers |-> ""]
    /\ requests = 0
    /\ stopReturned = FALSE
    /\ calls = 0
    /\ succeeded = 0
    /\ ipc = "idle"
    /\ iArgs = <<>>
    /\ iResult = <<>>
    /\ rpc = "idle"
    /\ rOp = <<>>
    /\ rValue = <<>>

\* the program starts on an empty database, in an environment that leaves
\* GOOGLE_ADS_HISTORY_DAYS at its default
Init ==
    /\ InitScheduler
    /\ envDays = DefaultDaysText
    /\ runs = <<>>
    /\ nextId = 1
    /\ txn = <<>>

\* the clock advances
Tick ==
    /\ \E d \in TickSteps : now + d <= MaxNow /\ now' = now + d
    /\ UNCHANGED <<apiVars, envEnabled, envCustomer, envDays, globalVars, storeVars, workerVars,
                   callerVars, stopReturned>>

\* ------------------------------------------------------ the run store
\* datetime.now().strftime("%Y-%m-%d"): the clock of the model starts on
\* 2024-12-31 and the table covers the days it can reach
DateOf(day) ==
    CASE day = 0 -> <<"2", "0", "2", "4", "-", "1", "2", "-", "3", "1">>
      [] day = 1 -> <<"2", "0", "2", "5", "-", "0", "1", "-", "0", "1">>
      [] day = 2 -> <<"2", "0", "2", "5", "-", "0", "1", "-", "0", "2">>
      [] OTHER -> <<"2", "0", "2", "5", "-", "0", "1", "-", "0", "3">>

DigitChar(n) ==
    CASE n = 0 -> "0" [] n = 1 -> "1" [] n = 2 -> "2" [] n = 3 -> "3" [] n = 4 -> "4"
      [] n = 5 -> "5" [] n = 6 -> "6" [] n = 7 -> "7" [] n = 8 -> "8" [] n = 9 -> "9"

\* "%02d" of a number below 100
TwoDigits(n) == <<DigitChar(n \div 10), DigitChar(n % 10)>>

\* datetime.now().strftime("%Y-%m-%d %H:%M:%S") when the clock reads t; the
\* clock reads 0 at 2024-12-31 23:50:00
FormatTime(t) ==
    LET s == t + 23 * 3600 + 50 * 60
        day == s \div 86400
        hh == (s % 86400) \div 3600
        mm == (s % 3600) \div 60
        ss == s % 60
    IN DateOf(day) \o <<" ">> \o TwoDigits(hh) \o <<":">> \o TwoDigits(mm)
                   \o <<":">> \o TwoDigits(ss)

\* _persist_run, INSERT INTO runs: the statement opens the write transaction of
\* its connection, which no other connection may hold, and takes the next id
PersistBegin(owner, customer, days) ==
    /\ txn = <<>>
    /\ txn' = <<[owner |-> owner,
                 run |-> [id |-> nextId, fetched_at |-> FormatTime(now),
                          customer_id |-> customer, days |-> days, rows |-> <<>>]]>>
    /\ UNCHANGED <<runs, nextId>>

\* _persist_run, INSERT INTO campaigns for the next row of rows
PersistRow(owner, rows) ==
    /\ txn # <<>>
    /\ txn[1].owner = owner
    /\ Len(txn[1].run.rows) < Len(rows)
    /\ txn' = <<[txn[1] EXCEPT !.run.rows = Append(@, rows[Len(@) + 1])]>>
    /\ UNCHANGED <<runs, nextId>>

\* PersistCommit leaving the AUTOINCREMENT counter where it was
PersistCommitSameId(owner, rows) ==
    /\ txn # <<>>
    /\ txn[1].owner = owner
    /\ Len(txn[1].run.rows) = Len(rows)
    /\ runs' = Append(runs, txn[1].run)
    /\ nextId' = nextId
    /\ txn' = <<>>

\* _persist_run, the end of the with block: the connection commits the run row
\* and its campaigns rows together
PersistCommit(owner, rows) ==
    /\ txn # <<>>
    /\ txn[1].owner = owner
    /\ Len(txn[1].run.rows) = Len(rows)
    /\ runs' = Append(runs, txn[1].run)
    /\ nextId' = nextId + 1
    /\ txn' = <<>>

\* PersistRollback on a connection that commits each statement by itself
PersistRollbackKeeps(owner) ==
    IF txn # <<>> /\ txn[1].owner = owner
    THEN runs' = Append(runs, txn[1].run) /\ nextId' = nextId + 1 /\ txn' = <<>>
    ELSE UNCHANGED <<runs, nextId, txn>>

\* _persist_run, an exception inside the with block: the connection rolls back
\* what the transaction wrote
PersistRollback(owner) ==
    /\ txn' = IF txn # <<>> /\ txn[1].owner = owner THEN <<>> ELSE txn
    /\ UNCHANGED <<runs, nextId>>

\* ------------------------------------------------- reading the store
\* A statement sees the committed table rs; the rows of an open transaction
\* of another connection are invisible to it.

\* SQL NULL in a text column
SqlNull == "<NULL>"

Min(a, b) == IF a < b THEN a ELSE b
Max(a, b) == IF a > b THEN a ELSE b

RECURSIVE SumSeq(_)
SumSeq(q) == IF q = <<>> THEN 0 ELSE q[1] + SumSeq(Tail(q))

RECURSIVE Reversed(_)
Reversed(q) == IF q = <<>> THEN <<>> ELSE Append(Reversed(Tail(q)), q[1])

\* the code point of a character of a timestamp
CharCode(c) ==
    CASE c = " " -> 32 [] c = "-" -> 45 [] c = ":" -> 58
      [] OTHER -> 48 + DigitVal(c)

\* the binary collation of two text values: a sorts before b
RECURSIVE TextLess(_, _)
TextLess(a, b) ==
    IF b = <<>> THEN FALSE
    ELSE IF a = <<>> THEN TRUE
    ELSE IF a[1] = b[1] THEN TextLess(Tail(a), Tail(b))
    ELSE CharCode(a[1]) < CharCode(b[1])

\* _count_runs: SELECT COUNT(*) FROM runs
CountRuns(rs) == Len(rs)

\* OrderByIdDesc with the ascending order
RECURSIVE OrderByIdAsc(_)
OrderByIdAsc(S) ==
    IF S = {} THEN <<>>
    ELSE LET r == CHOOSE x \in S : \A y \in S : x.id <= y.id
         IN <<r>> \o OrderByIdAsc(S \ {r})

\* ORDER BY runs.id DESC
RECURSIVE OrderByIdDesc(_)
OrderByIdDesc(S) ==
    IF S = {} THEN <<>>
    ELSE LET r == CHOOSE x \in S : \A y \in S : y.id <= x.id
         IN <<r>> \o OrderByIdDesc(S \ {r})

\* LIMIT n OFFSET k of SQLite: a negative offset counts as 0, a negative
\* limit as no limit
LimitOffset(q, n, k) ==
    LET first == Max(k, 0) + 1
        last == IF n < 0 THEN Len(q) ELSE Min(Max(k, 0) + n, Len(q))
    IN SubSeq(q, first, last)

\* runs LEFT JOIN campaigns ON campaigns.run_id = runs.id, the campaign_name
\* column of the joined rows of one run: a run without campaigns rows gives
\* one joined row whose campaigns columns are NULL
JoinedNames(run) == IF run.rows = <<>> THEN <<SqlNull>> ELSE run.rows

\* CASE WHEN campaigns.campaign_name = 'TOTAL' THEN 0 ELSE 1 END: a comparison
\* with NULL is not true
CaseNotTotal(name) == IF name # SqlNull /\ name = "TOTAL" THEN 0 ELSE 1

\* the row of _fetch_runs_page for one run
RunSummary(run) ==
    [id |-> run.id, fetched_at |-> run.fetched_at, customer_id |-> run.customer_id,
     days |-> run.days,
     campaign_count |-> SumSeq([i \in 1..Len(JoinedNames(run)) |->
                                   CaseNotTotal(JoinedNames(run)[i])])]

\* FetchRunsPage with ORDER BY runs.id ASC
FetchRunsPageAsc(rs, page, page_size) ==
    LET offset == (page - 1) * page_size
        grouped == {RunSummary(rs[i]) : i \in 1..Len(rs)}
    IN LimitOffset(OrderByIdAsc(grouped), page_size, offset)

\* _fetch_runs_page(page, page_size)
FetchRunsPage(rs, page, page_size) ==
    LET offset == (page - 1) * page_size
        grouped == {RunSummary(rs[i]) : i \in 1..Len(rs)}
    IN LimitOffset(OrderByIdDesc(grouped), page_size, offset)

\* _fetch_run_rows(run_id): the campaigns rows WHERE run_id = ? ORDER BY id ASC
FetchRunRows(rs, run_id) ==
    LET hit == {i \in 1..Len(rs) : rs[i].id = run_id}
    IN IF hit = {} THEN <<>> ELSE rs[CHOOSE i \in hit : TRUE].rows

\* WHERE campaign_name != 'TOTAL': a comparison with NULL is not true
WhereNotTotal(name) == name # SqlNull /\ name # "TOTAL"

CountNotTotal(rows) == Cardinality({i \in 1..Len(rows) : WhereNotTotal(rows[i])})

\* _fetch_history_stats, first statement: COUNT(*) and MAX(fetched_at)
StatsRuns(rs) ==
    [total_runs |-> Len(rs),
     last_run |-> IF rs = <<>> THEN <<>>
                  ELSE LET T == {rs[i].fetched_at : i \in 1..Len(rs)}
                       IN CHOOSE t \in T : \A u \in T : u = t \/ TextLess(u, t)]

\* _fetch_history_stats, second statement
StatsTotalCampaigns(rs) == SumSeq([i \in 1..Len(rs) |-> CountNotTotal(rs[i].rows)])

\* _fetch_history_stats, third statement: ORDER BY id DESC LIMIT 1; <<>> when
\* there is no run
StatsLatestRun(rs) ==
    LET top == LimitOffset(OrderByIdDesc({rs[i] : i \in 1..Len(rs)}), 1, 0)
    IN IF top = <<>> THEN <<>>
       ELSE <<[id |-> top[1].id, customer_id |-> top[1].customer_id]>>

\* _fetch_history_stats, fourth statement, run only when there is a latest run
StatsLatestCampaigns(rs, run_id) == CountNotTotal(FetchRunRows(rs, run_id))

\* the dict _fetch_history_stats returns, from what its statements returned
StatsDict(s1, s2, s3, s4) ==
    [total_runs |-> s1.total_runs, last_run |-> s1.last_run,
     total_campaigns |-> s2,
     latest_run_id |-> IF s3 = <<>> THEN None ELSE s3[1].id,
     latest_customer_id |-> IF s3 = <<>> THEN SqlNull ELSE s3[1].customer_id,
     latest_campaigns |-> s4]

\* substr(text, start, length) of SQLite for start >= 1
Substr(t, start, length) == SubSeq(t, start, Min(start + length - 1, Len(t)))

\* FiveMinFloor without the rounding
FiveMinFloorNone(mm) == mm

\* (CAST(substr(fetched_at, 15, 2) AS INTEGER) / 5) * 5
FiveMinFloor(mm) == (mm \div 5) * 5

\* CAST(text AS INTEGER): the value of the leading digits, 0 when there are none
CastInteger(t) ==
    LET n == Cardinality({j \in 1..Len(t) : \A k \in 1..j : t[k] \in Digits})
    IN DecValue(SubSeq(t, 1, n))

\* printf('%02d', n): at least two digits, padded with zeros
RECURSIVE DecDigits(_)
DecDigits(n) == IF n < 10 THEN <<DigitChar(n)>>
                ELSE Append(DecDigits(n \div 10), DigitChar(n % 10))

Printf02d(n) == IF n < 10 THEN <<"0", DigitChar(n)>> ELSE DecDigits(n)

Granularities == {"day", "hour", "bucket"}

\* the label expression of _fetch_runs_per_day / _per_hour / _per_5min
BucketLabel(granularity, fetched_at) ==
    CASE granularity = "day" -> Substr(fetched_at, 1, 10)
      [] granularity = "hour" -> Substr(fetched_at, 1, 13)
      [] granularity = "bucket" ->
           Substr(fetched_at, 1, 14)
             \o Printf02d(FiveMinFloor(CastInteger(Substr(fetched_at, 15, 2))))

\* ORDER BY label DESC
RECURSIVE OrderByLabelDesc(_)
OrderByLabelDesc(S) ==
    IF S = {} THEN <<>>
    ELSE LET r == CHOOSE x \in S : \A y \in S : y = x \/ TextLess(y.label, x.label)
         IN <<r>> \o OrderByLabelDesc(S \ {r})

\* _fetch_runs_per_day(limit), _fetch_runs_per_hour(limit) and
\* _fetch_runs_per_5min(limit): GROUP BY label, COUNT(*), ORDER BY label DESC,
\* LIMIT ?
FetchRunsPer(granularity, rs, limit) ==
    LET labels == {BucketLabel(granularity, rs[i].fetched_at) : i \in 1..Len(rs)}
        groups == {[label |-> l,
                    runs |-> Cardinality({i \in 1..Len(rs) :
                                BucketLabel(granularity, rs[i].fetched_at) = l})]
                   : l \in labels}
    IN LimitOffset(OrderByLabelDesc(groups), limit, 0)

\* history(): the rows of a granularity, reversed for the chart
BucketCounts(granularity, rs, limit) == Reversed(FetchRunsPer(granularity, rs, limit))

\* ------------------------------------------------- the worker thread
\* _scheduler_stop_event.wait(timeout), called on the Event bound to the
\* global at this moment
BeginWait(w) ==
    /\ wpc' = [wpc EXCEPT ![w] = "waiting"]
    /\ wEvent' = [wEvent EXCEPT ![w] = curEvent]

\* while not _scheduler_stop_event.is_set():
WLoop(w) ==
    /\ wpc[w] = "loop"
    /\ wpc' = [wpc EXCEPT ![w] = IF curEvent \in setEvents THEN "exited"
                                 ELSE "chk_enabled"]
    /\ UNCHANGED <<apiVars, envVars, globalVars, storeVars, wEvent, wRows, wErr, born,
                   callerVars, stopReturned>>

\* if not _scheduler_is_enabled(): wait(1); continue
WCheckEnabled(w) ==
    /\ wpc[w] = "chk_enabled"
    /\ IF SchedulerIsEnabled
       THEN wpc' = [wpc EXCEPT ![w] = "chk_backoff"] /\ UNCHANGED wEvent
       ELSE BeginWait(w)
    /\ UNCHANGED <<apiVars, envVars, globalVars, storeVars, wRows, wErr, born,
                   callerVars, stopReturned>>

\* WCheckBackoff without the comparison with the clock
WCheckBackoffNoClock(w) ==
    /\ wpc[w] = "chk_backoff"
    /\ IF backoffUntil # None
       THEN BeginWait(w)
       ELSE wpc' = [wpc EXCEPT ![w] = "get_customer"] /\ UNCHANGED wEvent
    /\ UNCHANGED <<apiVars, envVars, globalVars, storeVars, wRows, wErr, born,
                   callerVars, stopReturned>>

\* if _scheduler_backoff_until and datetime.now() < _scheduler_backoff_until:
\*     wait(5); continue
WCheckBackoff(w) ==
    /\ wpc[w] = "chk_backoff"
    /\ IF BackoffActive
       THEN BeginWait(w)
       ELSE wpc' = [wpc EXCEPT ![w] = "get_customer"] /\ UNCHANGED wEvent
    /\ UNCHANGED <<apiVars, envVars, globalVars, storeVars, wRows, wErr, born,
                   callerVars, stopReturned>>

\* WGetCustomer without the test of customer_id
WGetCustomerAlways(w) ==
    /\ wpc[w] = "get_customer"
    /\ wpc' = [wpc EXCEPT ![w] = "fetching"]
    /\ UNCHANGED <<apiVars, envVars, globalVars, storeVars, wEvent, wRows, wErr, born,
                   callerVars, stopReturned>>

\* customer_id = _get_default_customer_id(); if customer_id: _run_once(...)
\* is entered (_build_client and the call of ads._fetch_campaigns); else the
\* wait at the end of the loop body
WGetCustomer(w) ==
    /\ wpc[w] = "get_customer"
    /\ IF envCustomer # ""
       THEN wpc' = [wpc EXCEPT ![w] = "fetching"] /\ UNCHANGED wEvent
       ELSE BeginWait(w)
    /\ UNCHANGED <<apiVars, envVars, globalVars, storeVars, wRows, wErr, born,
                   callerVars, stopReturned>>

\* the fetch returns rows; rows = ads._rows_with_total(rows)
WFetchOk(w) ==
    /\ wpc[w] = "fetching"
    /\ StoreHasRoom
    /\ \E rows \in FetchResults : wRows' = [wRows EXCEPT ![w] = RowsWithTotal(rows)]
    /\ wpc' = [wpc EXCEPT ![w] = "persist"]
    /\ UNCHANGED <<apiVars, envVars, globalVars, storeVars, wEvent, wErr, born,
                   callerVars, stopReturned>>

\* except Exception as ex: _apply_backoff(ex).  An exception raised by
\* _apply_backoff leaves the handler and the loop, and the thread ends.
Except(w, message) ==
    LET r == ApplyBackoff(message, now, backoffUntil) IN
      /\ backoffUntil' = r.until
      /\ wErr' = [wErr EXCEPT ![w] = message]
      /\ wpc' = [wpc EXCEPT ![w] = IF r.raised THEN "dead" ELSE "except"]
      /\ UNCHANGED wEvent

\* _build_client or the fetch raises an exception with this message, and the
\* except clause of the loop handles it
WFetchFailWith(w, message) ==
    /\ wpc[w] = "fetching"
    /\ Except(w, message)
    /\ UNCHANGED <<apiVars, envVars, schedEnabled, schedDays, forced, started, curEvent, setEvents,
                   storeVars, wRows, born, callerVars, stopReturned>>

WFetchFail(w) == \E message \in FetchMessages : WFetchFailWith(w, message)

\* _persist_run inserts the run row
WPersistBegin(w) ==
    /\ wpc[w] = "persist"
    /\ PersistBegin(<<"worker", w>>, envCustomer, SCHEDULER_DAYS)
    /\ wpc' = [wpc EXCEPT ![w] = "inserting"]
    /\ UNCHANGED <<apiVars, envVars, globalVars, wEvent, wRows, wErr, born,
                   callerVars, stopReturned>>

\* _persist_run inserts the next campaigns row
WPersistRow(w) ==
    /\ wpc[w] = "inserting"
    /\ PersistRow(<<"worker", w>>, wRows[w])
    /\ UNCHANGED <<apiVars, envVars, globalVars, workerVars, callerVars, stopReturned>>

\* _persist_run commits, then the wait at the end of the loop body
WPersistOk(w) ==
    /\ wpc[w] = "inserting"
    /\ PersistCommit(<<"worker", w>>, wRows[w])
    /\ wRows' = [wRows EXCEPT ![w] = NoRows]
    /\ BeginWait(w)
    /\ UNCHANGED <<apiVars, envVars, globalVars, wErr, born, callerVars, stopReturned>>

\* a statement of _persist_run, or its commit, raises with this message: the
\* transaction is rolled back and the except clause of the loop handles the
\* exception
WPersistFailWith(w, message) ==
    /\ wpc[w] \in {"persist", "inserting"}
    /\ PersistRollback(<<"worker", w>>)
    /\ Except(w, message)
    /\ wRows' = [wRows EXCEPT ![w] = NoRows]
    /\ UNCHANGED <<apiVars, envVars, schedEnabled, schedDays, forced, started, curEvent, setEvents,
                   born, callerVars, stopReturned>>

WPersistFail(w) == \E message \in StoreMessages : WPersistFailWith(w, message)

\* print(f"[scheduler] error={ex}") ends the except clause, which unbinds ex;
\* then the wait at the end of the loop body
WPrintError(w) ==
    /\ wpc[w] = "except"
    /\ wErr' = [wErr EXCEPT ![w] = NoError]
    /\ BeginWait(w)
    /\ UNCHANGED <<apiVars, envVars, globalVars, storeVars, wRows, born,
                   callerVars, stopReturned>>

\* a wait returns because the Event it was called on is set
WWakeSignalled(w) ==
    /\ wpc[w] = "waiting"
    /\ wEvent[w] \in setEvents
    /\ wpc' = [wpc EXCEPT ![w] = "loop"]
    /\ wEvent' = [wEvent EXCEPT ![w] = NoEvent]
    /\ UNCHANGED <<apiVars, envVars, globalVars, storeVars, wRows, wErr, born,
                   callerVars, stopReturned>>

\* a wait returns because its timeout elapsed
WWakeTimeout(w) ==
    /\ wpc[w] = "waiting"
    /\ wEvent[w] \notin setEvents
    /\ wpc' = [wpc EXCEPT ![w] = "loop"]
    /\ wEvent' = [wEvent EXCEPT ![w] = NoEvent]
    /\ UNCHANGED <<apiVars, envVars, globalVars, storeVars, wRows, wErr, born,
                   callerVars, stopReturned>>

WorkerStep(w) ==
    \/ WLoop(w) \/ WCheckEnabled(w) \/ WCheckBackoff(w) \/ WGetCustomer(w)
    \/ WFetchOk(w) \/ WFetchFail(w)
    \/ WPersistBegin(w) \/ WPersistRow(w) \/ WPersistOk(w) \/ WPersistFail(w)
    \/ WPrintError(w) \/ WWakeSignalled(w) \/ WWakeTimeout(w)

\* ------------------------------------------------- the request threads
InStart == {c \in Callers : cpc[c] \in {"st_check", "st_spawn"}}
InStop == {c \in Callers : cpc[c] \in {"sp_check", "sp_set", "sp_flag", "sp_backoff",
                                        "sp_new"}}

\* a thread can be given to every _start_scheduler() call now under way
CanSpawn == started \/ Cardinality(Spawned) + Cardinality(InStart) < MaxWorkers

Respond(c, message) ==
    /\ cpc' = [cpc EXCEPT ![c] = "respond"]
    /\ cMessage' = [cMessage EXCEPT ![c] = message]

\* what the handler answers once _start_scheduler() or _stop_scheduler() returned
AfterCall(c) ==
    CASE cAction[c] = "start" -> "Scheduler started"
      [] cAction[c] = "stop" -> "Scheduler stopped"
      [] OTHER -> "page"

\* the request goes to the first free thread of the server
FirstIdle(c) == cpc[c] = "idle" /\ \A d \in Callers : d < c => cpc[d] # "idle"

\* POST /control with action=start: _load_scheduler_config(),
\* _scheduler_forced_enabled = True, and _start_scheduler() is entered, which
\* loads the configuration again
ControlStart(c) ==
    /\ FirstIdle(c)
    /\ requests < MaxRequests
    /\ CanSpawn
    /\ requests' = requests + 1
    /\ schedEnabled' = envEnabled
    /\ schedDays' = IntValue(envDays)
    /\ forced' = TRUE
    /\ cAction' = [cAction EXCEPT ![c] = "start"]
    /\ cpc' = [cpc EXCEPT ![c] = "st_check"]
    /\ stopReturned' = FALSE
    /\ UNCHANGED <<apiVars, envVars, started, curEvent, setEvents, backoffUntil,
                   storeVars, workerVars, cCustomer, cRows, cMessage>>

\* POST /control with action=stop: _load_scheduler_config(),
\* _scheduler_forced_enabled = False, and _stop_scheduler() is entered
ControlStop(c) ==
    /\ FirstIdle(c)
    /\ requests < MaxRequests
    /\ requests' = requests + 1
    /\ schedEnabled' = envEnabled
    /\ schedDays' = IntValue(envDays)
    /\ forced' = FALSE
    /\ cAction' = [cAction EXCEPT ![c] = "stop"]
    /\ cpc' = [cpc EXCEPT ![c] = "sp_check"]
    /\ UNCHANGED <<apiVars, envVars, started, curEvent, setEvents, backoffUntil,
                   storeVars, workerVars, cCustomer, cRows, cMessage, stopReturned>>

\* ControlRunOnce refusing the run while the backoff deadline lies ahead
ControlRunOnceGated(c, customer) ==
    /\ FirstIdle(c)
    /\ requests < MaxRequests
    /\ requests' = requests + 1
    /\ schedEnabled' = envEnabled
    /\ schedDays' = IntValue(envDays)
    /\ cAction' = [cAction EXCEPT ![c] = "run_once"]
    /\ LET customer_id == IF customer # "" THEN customer ELSE envCustomer IN
         IF customer_id = "" \/ BackoffActive
         THEN Respond(c, "Missing customer_id") /\ UNCHANGED cCustomer
         ELSE /\ cpc' = [cpc EXCEPT ![c] = "m_fetching"]
              /\ cCustomer' = [cCustomer EXCEPT ![c] = customer_id]
              /\ UNCHANGED cMessage
    /\ UNCHANGED <<apiVars, envVars, forced, started, curEvent, setEvents, backoffUntil,
                   storeVars, workerVars, cRows, stopReturned>>

\* POST /control with action=run_once: _load_scheduler_config();
\* customer_id = form value or _get_default_customer_id(); without one the
\* answer is "Missing customer_id", else _run_once(customer_id, SCHEDULER_DAYS)
\* is entered (_build_client and the call of ads._fetch_campaigns)
ControlRunOnce(c, customer) ==
    /\ FirstIdle(c)
    /\ requests < MaxRequests
    /\ requests' = requests + 1
    /\ schedEnabled' = envEnabled
    /\ schedDays' = IntValue(envDays)
    /\ cAction' = [cAction EXCEPT ![c] = "run_once"]
    /\ LET customer_id == IF customer # "" THEN customer ELSE envCustomer IN
         IF customer_id = ""
         THEN Respond(c, "Missing customer_id") /\ UNCHANGED cCustomer
         ELSE /\ cpc' = [cpc EXCEPT ![c] = "m_fetching"]
              /\ cCustomer' = [cCustomer EXCEPT ![c] = customer_id]
              /\ UNCHANGED cMessage
    /\ UNCHANGED <<apiVars, envVars, forced, started, curEvent, setEvents, backoffUntil,
                   storeVars, workerVars, cRows, stopReturned>>

\* POST /control with any other action
ControlOther(c) ==
    /\ FirstIdle(c)
    /\ requests < MaxRequests
    /\ requests' = requests + 1
    /\ schedEnabled' = envEnabled
    /\ schedDays' = IntValue(envDays)
    /\ cAction' = [cAction EXCEPT ![c] = "other"]
    /\ Respond(c, "Unknown action")
    /\ UNCHANGED <<apiVars, envVars, forced, started, curEvent, setEvents, backoffUntil,
                   storeVars, workerVars, cCustomer, cRows, stopReturned>>

\* BeginView without the call of _start_scheduler()
BeginViewNoStart(c, route) ==
    /\ FirstIdle(c)
    /\ requests < MaxRequests
    /\ requests' = requests + 1
    /\ cAction' = [cAction EXCEPT ![c] = route]
    /\ Respond(c, "page")
    /\ UNCHANGED <<apiVars, envVars, globalVars, storeVars, workerVars, cCustomer, cRows,
                   stopReturned>>

\* GET / or GET /history: the handler first calls _start_scheduler(), which
\* loads the configuration
BeginView(c, route) ==
    /\ FirstIdle(c)
    /\ requests < MaxRequests
    /\ CanSpawn
    /\ requests' = requests + 1
    /\ schedEnabled' = envEnabled
    /\ schedDays' = IntValue(envDays)
    /\ cAction' = [cAction EXCEPT ![c] = route]
    /\ cpc' = [cpc EXCEPT ![c] = "st_check"]
    /\ stopReturned' = FALSE
    /\ UNCHANGED <<apiVars, envVars, forced, started, curEvent, setEvents, backoffUntil,
                   storeVars, workerVars, cCustomer, cRows, cMessage>>

\* StartCheck without the test of _scheduler_started
StartCheckIgnoresStarted(c) ==
    /\ cpc[c] = "st_check"
    /\ cpc' = [cpc EXCEPT ![c] = IF ~SchedulerIsEnabled THEN "st_return"
                                 ELSE "st_spawn"]
    /\ UNCHANGED <<apiVars, envVars, globalVars, storeVars, workerVars, cAction, cCustomer,
                   cRows, cMessage, requests, stopReturned>>

\* _start_scheduler: if _scheduler_started or not _scheduler_is_enabled(): return
StartCheck(c) ==
    /\ cpc[c] = "st_check"
    /\ cpc' = [cpc EXCEPT ![c] = IF started \/ ~SchedulerIsEnabled THEN "st_return"
                                 ELSE "st_spawn"]
    /\ UNCHANGED <<apiVars, envVars, globalVars, storeVars, workerVars, cAction, cCustomer,
                   cRows, cMessage, requests, stopReturned>>

\* _start_scheduler: the early return, back in the handler
StartReturn(c) ==
    /\ cpc[c] = "st_return"
    /\ Respond(c, AfterCall(c))
    /\ UNCHANGED <<apiVars, envVars, globalVars, storeVars, workerVars, cAction, cCustomer,
                   cRows, requests, stopReturned>>

\* _start_scheduler: _init_db(); thread = threading.Thread(...); thread.start()
StartSpawn(c) ==
    /\ cpc[c] = "st_spawn"
    /\ \E w \in Workers :
         /\ wpc[w] = "unborn"
         /\ \A v \in Workers : wpc[v] = "unborn" => w <= v
         /\ wpc' = [wpc EXCEPT ![w] = "loop"]
         /\ born' = [born EXCEPT ![w] = curEvent]
    /\ cpc' = [cpc EXCEPT ![c] = "st_flag"]
    /\ UNCHANGED <<apiVars, envVars, globalVars, storeVars, wEvent, wRows, wErr, cAction,
                   cCustomer, cRows, cMessage, requests, stopReturned>>

\* _start_scheduler: _scheduler_started = True
StartFlag(c) ==
    /\ cpc[c] = "st_flag"
    /\ started' = TRUE
    /\ Respond(c, AfterCall(c))
    /\ UNCHANGED <<apiVars, envVars, schedEnabled, schedDays, forced, curEvent, setEvents, backoffUntil,
                   storeVars, workerVars, cAction, cCustomer, cRows, requests,
                   stopReturned>>

\* _stop_scheduler: if not _scheduler_started: return
StopCheck(c) ==
    /\ cpc[c] = "sp_check"
    /\ IF ~started
       THEN Respond(c, AfterCall(c))
       ELSE cpc' = [cpc EXCEPT ![c] = "sp_set"] /\ UNCHANGED cMessage
    /\ UNCHANGED <<apiVars, envVars, globalVars, storeVars, workerVars, cAction, cCustomer,
                   cRows, requests, stopReturned>>

\* StopSet holding the caller until no worker thread is inside _run_once
StopSetJoins(c) ==
    /\ cpc[c] = "sp_set"
    /\ InRunOnceW = {}
    /\ setEvents' = setEvents \cup {curEvent}
    /\ cpc' = [cpc EXCEPT ![c] = "sp_flag"]
    /\ UNCHANGED <<apiVars, envVars, schedEnabled, schedDays, forced, started, curEvent,
                   backoffUntil, storeVars, workerVars, cAction, cCustomer, cRows,
                   cMessage, requests, stopReturned>>

\* _stop_scheduler: _scheduler_stop_event.set()
StopSet(c) ==
    /\ cpc[c] = "sp_set"
    /\ setEvents' = setEvents \cup {curEvent}
    /\ cpc' = [cpc EXCEPT ![c] = "sp_flag"]
    /\ UNCHANGED <<apiVars, envVars, schedEnabled, schedDays, forced, started, curEvent, backoffUntil,
                   storeVars, workerVars, cAction, cCustomer, cRows, cMessage,
                   requests, stopReturned>>

\* _stop_scheduler: _scheduler_started = False
StopFlag(c) ==
    /\ cpc[c] = "sp_flag"
    /\ started' = FALSE
    /\ cpc' = [cpc EXCEPT ![c] = "sp_backoff"]
    /\ UNCHANGED <<apiVars, envVars, schedEnabled, schedDays, forced, curEvent, setEvents, backoffUntil,
                   storeVars, workerVars, cAction, cCustomer, cRows, cMessage,
                   requests, stopReturned>>

\* StopBackoff leaving the deadline in place
StopBackoffKeeps(c) ==
    /\ cpc[c] = "sp_backoff"
    /\ cpc' = [cpc EXCEPT ![c] = "sp_new"]
    /\ UNCHANGED <<apiVars, envVars, schedEnabled, schedDays, forced, started, curEvent,
                   setEvents, backoffUntil, storeVars, workerVars, cAction, cCustomer,
                   cRows, cMessage, requests, stopReturned>>

\* _stop_scheduler: _scheduler_backoff_until = None
StopBackoff(c) ==
    /\ cpc[c] = "sp_backoff"
    /\ backoffUntil' = None
    /\ cpc' = [cpc EXCEPT ![c] = "sp_new"]
    /\ UNCHANGED <<apiVars, envVars, schedEnabled, schedDays, forced, started, curEvent, setEvents,
                   storeVars, workerVars, cAction, cCustomer, cRows, cMessage,
                   requests, stopReturned>>

\* StopNewEvent without the new Event: the set one stays bound to the global
StopKeepsEvent(c) ==
    /\ cpc[c] = "sp_new"
    /\ stopReturned' = TRUE
    /\ Respond(c, AfterCall(c))
    /\ UNCHANGED <<apiVars, envVars, globalVars, storeVars, workerVars, cAction, cCustomer,
                   cRows, requests>>

\* _stop_scheduler: _scheduler_stop_event = threading.Event(), and the return
StopNewEvent(c) ==
    /\ cpc[c] = "sp_new"
    /\ curEvent' = curEvent + 1
    /\ stopReturned' = TRUE
    /\ Respond(c, AfterCall(c))
    /\ UNCHANGED <<apiVars, envVars, schedEnabled, schedDays, forced, started, setEvents, backoffUntil,
                   storeVars, workerVars, cAction, cCustomer, cRows, requests>>

\* control() run_once: the fetch of _run_once returns rows
ManualFetchOk(c) ==
    /\ cpc[c] = "m_fetching"
    /\ StoreHasRoom
    /\ \E rows \in FetchResults : cRows' = [cRows EXCEPT ![c] = RowsWithTotal(rows)]
    /\ cpc' = [cpc EXCEPT ![c] = "m_persist"]
    /\ UNCHANGED <<apiVars, envVars, globalVars, storeVars, workerVars, cAction, cCustomer,
                   cMessage, requests, stopReturned>>

\* ManualFetchFail handling the exception as the worker's except clause
\* does, for a rate-limited failure
ManualFetchFailBackoff(c) ==
    /\ cpc[c] = "m_fetching"
    /\ backoffUntil' = now + DefaultBackoffSeconds
    /\ Respond(c, "error")
    /\ UNCHANGED <<apiVars, envVars, schedEnabled, schedDays, forced, started, curEvent,
                   setEvents, storeVars, workerVars, cAction, cCustomer, cRows,
                   requests, stopReturned>>

\* ManualFetchFail with the exception swallowed and the run reported as done
ManualFetchFailSilent(c) ==
    /\ cpc[c] = "m_fetching"
    /\ Respond(c, "Run complete")
    /\ UNCHANGED <<apiVars, envVars, globalVars, storeVars, workerVars, cAction, cCustomer,
                   cRows, requests, stopReturned>>

\* control() run_once: _build_client or the fetch raises; the exception leaves
\* the handler
ManualFetchFail(c) ==
    /\ cpc[c] = "m_fetching"
    /\ Respond(c, "error")
    /\ UNCHANGED <<apiVars, envVars, globalVars, storeVars, workerVars, cAction, cCustomer,
                   cRows, requests, stopReturned>>

\* control() run_once: _persist_run inserts the run row
ManualPersistBegin(c) ==
    /\ cpc[c] = "m_persist"
    /\ PersistBegin(<<"request", c>>, cCustomer[c], SCHEDULER_DAYS)
    /\ cpc' = [cpc EXCEPT ![c] = "m_inserting"]
    /\ UNCHANGED <<apiVars, envVars, globalVars, workerVars, cAction, cCustomer, cRows,
                   cMessage, requests, stopReturned>>

\* control() run_once: _persist_run inserts the next campaigns row
ManualPersistRow(c) ==
    /\ cpc[c] = "m_inserting"
    /\ PersistRow(<<"request", c>>, cRows[c])
    /\ UNCHANGED <<apiVars, envVars, globalVars, workerVars, callerVars, stopReturned>>

\* control() run_once: _persist_run commits; message = "Run complete"
ManualPersistOk(c) ==
    /\ cpc[c] = "m_inserting"
    /\ PersistCommit(<<"request", c>>, cRows[c])
    /\ cRows' = [cRows EXCEPT ![c] = NoRows]
    /\ Respond(c, "Run complete")
    /\ UNCHANGED <<apiVars, envVars, globalVars, workerVars, cAction, cCustomer, requests,
                   stopReturned>>

\* control() run_once: a statement of _persist_run, or its commit, raises; the
\* transaction is rolled back and the exception leaves the handler
ManualPersistFail(c) ==
    /\ cpc[c] \in {"m_persist", "m_inserting"}
    /\ PersistRollback(<<"request", c>>)
    /\ cRows' = [cRows EXCEPT ![c] = NoRows]
    /\ Respond(c, "error")
    /\ UNCHANGED <<apiVars, envVars, globalVars, workerVars, cAction, cCustomer,
                   requests, stopReturned>>

\* the response is sent and the request thread is free again
CReturn(c) ==
    /\ cpc[c] = "respond"
    /\ cpc' = [cpc EXCEPT ![c] = "idle"]
    /\ cAction' = [cAction EXCEPT ![c] = ""]
    /\ cCustomer' = [cCustomer EXCEPT ![c] = ""]
    /\ cMessage' = [cMessage EXCEPT ![c] = ""]
    /\ UNCHANGED <<apiVars, envVars, globalVars, storeVars, workerVars, cRows, requests,
                   stopReturned>>

Begin(c) ==
    \/ ControlStart(c) \/ ControlStop(c) \/ ControlOther(c)
    \/ \E customer \in FormCustomers : ControlRunOnce(c, customer)
    \/ \E route \in ViewRoutes : BeginView(c, route)

CallerStep(c) ==
    \/ StartCheck(c) \/ StartReturn(c) \/ StartSpawn(c) \/ StartFlag(c)
    \/ StopCheck(c) \/ StopSet(c) \/ StopFlag(c) \/ StopBackoff(c) \/ StopNewEvent(c)
    \/ ManualFetchOk(c) \/ ManualFetchFail(c)
    \/ ManualPersistBegin(c) \/ ManualPersistRow(c)
    \/ ManualPersistOk(c) \/ ManualPersistFail(c)
    \/ CReturn(c)

AllIdle == \A c \in Callers : cpc[c] = "idle"

\* ------------------------------------- calls of the store functions
\* A thread that calls _persist_run with arguments of its choice, and a thread
\* that calls the read functions, run against the same database file.
StoreCaller == <<"caller", 1>>
InsertCustomers == {"123"}
InsertRows == {<<>>, <<SqlNull>>, <<"A", "TOTAL">>}
PageChoices == {1, 2}
PageSizeChoices == {2, 20}
LimitChoices == {1, 2, 72}

\* the clock advances between the calls
StoreTick ==
    /\ \E d \in StoreTickSteps : now + d <= MaxStoreNow /\ now' = now + d
    /\ UNCHANGED <<schedulerVars, storeVars, apiVars>>

\* _persist_run(customer_id, days, rows) is called
InsertCall(customer, days, rows) ==
    /\ ipc = "idle"
    /\ calls < MaxCalls
    /\ calls' = calls + 1
    /\ ipc' = "begin"
    /\ iArgs' = <<[customer_id |-> customer, days |-> days, rows |-> rows]>>
    /\ iResult' = <<>>
    /\ UNCHANGED <<now, schedulerVars, storeVars, succeeded, rpc, rOp, rValue>>

\* INSERT INTO runs
InsertBegin ==
    /\ ipc = "begin"
    /\ PersistBegin(StoreCaller, iArgs[1].customer_id, iArgs[1].days)
    /\ ipc' = "rows"
    /\ UNCHANGED <<now, schedulerVars, calls, succeeded, iArgs, iResult, rpc, rOp,
                   rValue>>

\* INSERT INTO campaigns, the next row
InsertRow ==
    /\ ipc = "rows"
    /\ PersistRow(StoreCaller, iArgs[1].rows)
    /\ UNCHANGED <<now, schedulerVars, apiVars>>

\* the with block ends, the transaction commits and _persist_run returns the id
InsertCommit ==
    /\ ipc = "rows"
    /\ PersistCommit(StoreCaller, iArgs[1].rows)
    /\ ipc' = "idle"
    /\ succeeded' = succeeded + 1
    /\ iResult' = <<"returned", nextId>>
    /\ iArgs' = <<>>
    /\ UNCHANGED <<now, schedulerVars, calls, rpc, rOp, rValue>>

\* a statement or the commit raises: the transaction is rolled back and the
\* exception leaves _persist_run; the result records how many statements had
\* been executed
InsertFail ==
    /\ ipc \in {"begin", "rows"}
    /\ PersistRollback(StoreCaller)
    /\ ipc' = "idle"
    /\ iResult' = <<"raised", IF txn = <<>> THEN 0 ELSE 1 + Len(txn[1].run.rows)>>
    /\ iArgs' = <<>>
    /\ UNCHANGED <<now, schedulerVars, calls, succeeded, rpc, rOp, rValue>>

\* a read function of one statement runs and returns
ReadDone(op, value) ==
    /\ rpc = "idle"
    /\ rpc' = "done"
    /\ rOp' = op
    /\ rValue' = value
    /\ UNCHANGED <<now, schedulerVars, storeVars, calls, succeeded, ipc, iArgs,
                   iResult>>

ReadCount == ReadDone(<<"count">>, CountRuns(runs))

ReadPage(page, page_size) ==
    ReadDone(<<"page", page, page_size>>, FetchRunsPage(runs, page, page_size))

ReadRunRows(run_id) == ReadDone(<<"rows", run_id>>, FetchRunRows(runs, run_id))

\* _fetch_runs_per_day / _per_hour / _per_5min and the reversal of history()
ReadBuckets(granularity, limit) ==
    ReadDone(<<"buckets", granularity, limit>>, BucketCounts(granularity, runs, limit))

\* _fetch_history_stats: each of its statements reads the database as it is
\* when the statement runs
ReadStats1 ==
    /\ rpc = "idle"
    /\ rpc' = "stats2"
    /\ rOp' = <<"stats">>
    /\ rValue' = <<StatsRuns(runs)>>
    /\ UNCHANGED <<now, schedulerVars, storeVars, calls, succeeded, ipc, iArgs,
                   iResult>>

ReadStats2 ==
    /\ rpc = "stats2"
    /\ rpc' = "stats3"
    /\ rValue' = Append(rValue, StatsTotalCampaigns(runs))
    /\ UNCHANGED <<now, schedulerVars, storeVars, calls, succeeded, ipc, iArgs,
                   iResult, rOp>>

ReadStats3 ==
    /\ rpc = "stats3"
    /\ rpc' = "stats4"
    /\ rValue' = Append(rValue, StatsLatestRun(runs))
    /\ UNCHANGED <<now, schedulerVars, storeVars, calls, succeeded, ipc, iArgs,
                   iResult, rOp>>

\* the fourth statement when there is a latest run, then the dict is returned
ReadStats4 ==
    /\ rpc = "stats4"
    /\ rpc' = "done"
    /\ rValue' = StatsDict(rValue[1], rValue[2], rValue[3],
                           IF rValue[3] = <<>> THEN 0
                           ELSE StatsLatestCampaigns(runs, rValue[3][1].id))
    /\ UNCHANGED <<now, schedulerVars, storeVars, calls, succeeded, ipc, iArgs,
                   iResult, rOp>>

\* the caller of the read function has its result
ReadReturn ==
    /\ rpc = "done"
    /\ rpc' = "idle"
    /\ rOp' = <<>>
    /\ rValue' = <<>>
    /\ UNCHANGED <<now, schedulerVars, storeVars, calls, succeeded, ipc, iArgs,
                   iResult>>

Insert ==
    \/ \E customer \in InsertCustomers : \E rows \in InsertRows :
         InsertCall(customer, SCHEDULER_DAYS, rows)
    \/ InsertBegin \/ InsertRow \/ InsertCommit \/ InsertFail

Read ==
    \/ ReadCount
    \/ \E page \in PageChoices : \E page_size \in PageSizeChoices :
         ReadPage(page, page_size)
    \/ \E run_id \in 1..MaxCalls : ReadRunRows(run_id)
    \/ \E granularity \in Granularities : \E limit \in LimitChoices :
         ReadBuckets(granularity, limit)
    \/ ReadStats1 \/ ReadStats2 \/ ReadStats3 \/ ReadStats4

\* ------------------------------------------------ the history page
\* history(): page = max(int(page_raw), 1), 1 on ValueError
HistoryPage(page_raw) == IF IsIntText(page_raw) THEN Max(IntValue(page_raw), 1) ELSE 1

\* HistoryPageSize without the upper limit
HistoryPageSizeNoCap(page_size_raw) ==
    Max(IF IsIntText(page_size_raw) THEN IntValue(page_size_raw) ELSE 100, 20)

\* history(): page_size = int(page_size_raw), 100 on ValueError, then
\* min(max(page_size, 20), 500)
HistoryPageSize(page_size_raw) ==
    Min(Max(IF IsIntText(page_size_raw) THEN IntValue(page_size_raw) ELSE 100, 20), 500)

\* history(): total_pages = max((total_runs + page_size - 1) // page_size, 1)
TotalPages(total_runs, page_size) ==
    Max((total_runs + page_size - 1) \div page_size, 1)

\* history(): the page, the page size and the page count it uses, and the
\* rows _fetch_runs_page returns for them
HistoryPaging(page_raw, page_size_raw, rs) ==
    LET page_size == HistoryPageSize(page_size_raw)
        total_pages == TotalPages(CountRuns(rs), page_size)
        page == Min(HistoryPage(page_raw), total_pages)
    IN [page |-> page, page_size |-> page_size, total_pages |-> total_pages,
        runs |-> FetchRunsPage(rs, page, page_size)]

PageTexts == {<<"a", "b", "c">>, <<>>, <<"-", "3">>, <<"0">>, <<"1">>, <<"2">>,
              <<"3">>, <<"+", "2">>, <<"4", "x">>, <<"9", "9">>}
PageSizeTexts == {<<"a", "b", "c">>, <<>>, <<"-", "1">>, <<"1", "9">>, <<"2", "0">>,
                  <<"2", "1">>, <<"1", "0", "0">>, <<"5", "0", "0">>,
                  <<"5", "0", "1">>}
StoreSizes == {0, 1, 20, 21, 41, 61}

\* the database after n automatic runs whose fetch returned no campaign
StoreOfSize(n) ==
    [i \in 1..n |-> [id |-> i, fetched_at |-> FormatTime(0), customer_id |-> "123",
                     days |-> SCHEDULER_DAYS, rows |-> <<"TOTAL">>]]

\* GET /history?page=..&page_size=..: the paging part of the handler
ViewHistory(page_raw, page_size_raw) ==
    ReadDone(<<"history", page_raw, page_size_raw>>,
             HistoryPaging(page_raw, page_size_raw, runs))

\* ------------------------------------------------ the chart series
\* A coordinate is held in hundredths: round(v, 2) of v = num / den, as the
\* integer nearest to 100 * num / den.  (A double is never exactly halfway
\* between two hundredths; the inputs below keep num / den off the halfway
\* points as well, so the nearest hundredth does not depend on the last bit.)
Round2(num, den) == (200 * num + den) \div (2 * den)

MaxOf(q) == CHOOSE m \in {q[i] : i \in 1..Len(q)} : \A i \in 1..Len(q) : q[i] <= m

\* _build_line_series: x of the dot at position idx (from 0), with the
\* divisor taken as count
SeriesXOverCount(padding, span_x, idx, count) ==
    Round2(padding * count + span_x * idx, count)

\* _build_line_series: x = padding + span_x * idx / (count - 1 if count > 1
\* else 1), rounded
SeriesX(padding, span_x, idx, count) ==
    LET den == IF count > 1 THEN count - 1 ELSE 1
    IN Round2(padding * den + span_x * idx, den)

\* _build_line_series: y = padding + span_y * (1 - count / max_count), rounded
SeriesY(padding, span_y, runs_count, max_count) ==
    Round2(padding * max_count + span_y * (max_count - runs_count), max_count)

\* _build_line_series(rows, label_key, "runs", width, height, padding);
\* points lists the x,y pairs of the dots that the code joins into a string
BuildLineSeries(rows, width, height, padding) ==
    IF rows = <<>>
    THEN [points |-> <<>>, dots |-> <<>>, width |-> width, height |-> height,
          start_label |-> SqlNull, end_label |-> SqlNull, max_value |-> 0]
    ELSE LET m == MaxOf([i \in 1..Len(rows) |-> rows[i].runs])
             max_count == IF m = 0 THEN 1 ELSE m
             count == Len(rows)
             span_x == Max(width - padding * 2, 1)
             span_y == Max(height - padding * 2, 1)
             dots == [i \in 1..count |->
                        [x |-> SeriesX(padding, span_x, i - 1, count),
                         y |-> SeriesY(padding, span_y, rows[i].runs, max_count),
                         label |-> rows[i].label,
                         count |-> rows[i].runs]]
         IN [points |-> [i \in 1..count |-> <<dots[i].x, dots[i].y>>],
             dots |-> dots, width |-> width, height |-> height,
             start_label |-> rows[1].label, end_label |-> rows[count].label,
             max_value |-> max_count]

\* the bucket rows handed to _build_line_series: GROUP BY rows, one label per
\* position, each with at least one run
SeriesCounts == {1, 2, 4}
SeriesLabels == <<"d1", "d2", "d3", "d4", "d5", "d6">>
SeriesRows == UNION {[1..n -> SeriesCounts] : n \in 0..MaxBuckets}
SeriesSizes == {<<100, 50, 10>>, <<900, 140, 10>>}

\* history(): a chart series is built from bucket rows
BuildSeries(counts, size) ==
    ReadDone(<<"series", counts, size>>,
             BuildLineSeries([i \in 1..Len(counts) |->
                                [label |-> SeriesLabels[i], runs |-> counts[i]]],
                             size[1], size[2], size[3]))

\* ------------------------------------------------------- specifications
\* request threads run concurrently (Flask's threaded server)
Next ==
    \/ Tick
    \/ \E w \in Workers : WorkerStep(w)
    \/ \E c \in Callers : Begin(c)
    \/ \E c \in Callers : CallerStep(c)

Spec == Init /\ [][Next]_vars

\* requests are served one after the other: no two handler calls overlap
NextSerial ==
    \/ Tick
    \/ \E w \in Workers : WorkerStep(w)
    \/ \E c \in Callers : AllIdle /\ Begin(c)
    \/ \E c \in Callers : CallerStep(c)

SerialSpec == Init /\ [][NextSerial]_vars

\* Every thread that can take a step eventually takes one: a fetch returns or
\* raises, a wait times out, a handler runs to its response.  Requests and
\* clock ticks are not forced.
Fairness ==
    /\ \A w \in Workers : WF_vars(WorkerStep(w))
    /\ \A c \in Callers : WF_vars(CallerStep(c))

FairSpec == Init /\ [][Next]_vars /\ Fairness
FairSerialSpec == Init /\ [][NextSerial]_vars /\ Fairness

\* The store functions called directly, one writing and one reading thread.
\* A finished read hands its result over before any other step: the result is
\* local to the reader, so no behaviour of the store is lost.
StoreInit == Init /\ envEnabled /\ envCustomer = ""

StoreNext ==
    \/ ReadReturn
    \/ rpc # "done" /\ StoreTick
    \/ rpc # "done" /\ Insert
    \/ rpc # "done" /\ Read

StoreSpec == StoreInit /\ [][StoreNext]_vars

\* The history page served from databases of several sizes.
PagingInit ==
    /\ InitScheduler
    /\ envDays = DefaultDaysText
    /\ envEnabled
    /\ envCustomer = ""
    /\ \E n \in StoreSizes : runs = StoreOfSize(n) /\ nextId = n + 1
    /\ txn = <<>>

PagingNext ==
    \/ \E page_raw \in PageTexts : \E page_size_raw \in PageSizeTexts :
         ViewHistory(page_raw, page_size_raw)
    \/ ReadReturn

PagingSpec == PagingInit /\ [][PagingNext]_vars

\* Chart series built from bucket rows of several lengths and counts.
SeriesInit == StoreInit

SeriesNext ==
    \/ \E counts \in SeriesRows : \E size \in SeriesSizes : BuildSeries(counts, size)
    \/ ReadReturn

SeriesSpec == SeriesInit /\ [][SeriesNext]_vars

\* The scheduler in environments that set GOOGLE_ADS_HISTORY_DAYS.
ConfigInit ==
    /\ InitScheduler
    /\ envEnabled
    /\ envDays \in DaysTexts
    /\ runs = <<>>
    /\ nextId = 1
    /\ txn = <<>>

ConfigSpec == ConfigInit /\ [][NextSerial]_vars

\* Start and stop requests and page views served concurrently (Flask's
\* threaded server), with the worker threads running, in an environment that
\* enables the scheduler and names a default customer.
BeginStartStop(c) ==
    \/ ControlStart(c) \/ ControlStop(c)
    \/ \E route \in ViewRoutes : BeginView(c, route)

StartStopStep(c) ==
    \/ StartCheck(c) \/ StartReturn(c) \/ StartSpawn(c) \/ StartFlag(c)
    \/ StopCheck(c) \/ StopSet(c) \/ StopFlag(c) \/ StopBackoff(c) \/ StopNewEvent(c)
    \/ CReturn(c)

NextStartStop ==
    \/ \E w \in Workers : WorkerStep(w)
    \/ \E c \in Callers : BeginStartStop(c)
    \/ \E c \in Callers : StartStopStep(c)

StartStopInit == Init /\ envEnabled /\ envCustomer = "123"

StartStopSpec == StartStopInit /\ [][NextStartStop]_vars

\* ----------------------------------------------------------- properties
\* The retry duration a message embeds, read as the text "Retry in N seconds"
\* with N a decimal number (leftmost occurrence); None when there is none.
DigitRun(s, i) ==
    LET ends == {j \in i..Len(s) : \A k \in i..j : s[k] \in Digits} IN
    IF ends = {} THEN 0 ELSE Cardinality(ends)

EmbeddedAt(s, i) ==
    /\ MatchAt(s, MRetryIn, i)
    /\ DigitRun(s, i + Len(MRetryIn)) > 0
    /\ MatchAt(s, MSeconds, i + Len(MRetryIn) + DigitRun(s, i + Len(MRetryIn)))

EmbeddedRetrySeconds(s) ==
    LET starts == {i \in 1..Len(s) : EmbeddedAt(s, i)} IN
    IF starts = {} THEN None
    ELSE LET i == CHOOSE i \in starts : \A j \in starts : i <= j
             b == i + Len(MRetryIn)
         IN DecValue(SubSeq(s, b, b + DigitRun(s, b) - 1))

BeginsAutoFetch(w) == wpc[w] # "fetching" /\ wpc'[w] = "fetching"

\* C1: at every moment at most one RunOnce (fetch followed by persist) is in
\* flight, counting the worker threads' automatic runs and the manual
\* run_once requests together.
C1_SingleFlight == Cardinality(InRunOnceW) + Cardinality(InRunOnceC) <= 1

\* C2: once a _stop_scheduler() call that found the scheduler started has
\* returned, and for as long as no _start_scheduler() is called, no worker
\* thread that was started before that return begins a fetch.
C2_NoAutoFetchAfterStop ==
    [][\A w \in Workers :
         (stopReturned /\ born[w] < curEvent) => ~BeginsAutoFetch(w)]_vars

\* C3: a worker thread whose stop event (the one bound when it was started) has
\* been set by _stop_scheduler() eventually leaves its loop.
C3_StoppedWorkerExits ==
    \A w \in Workers :
        (wpc[w] # "unborn" /\ born[w] \in setEvents) ~> (wpc[w] \in {"exited", "dead"})

\* C4: when no two handler calls overlap, at most one worker thread is alive.
C4_AtMostOneWorker == Cardinality(AliveWorkers) <= 1

\* C5: a step by which a request thread enters _start_scheduler(), or takes its
\* decision in it, while _scheduler_started is true starts no thread and leaves
\* _scheduler_started, the stop event and the backoff deadline as they were,
\* and the decision is the early return.
C5_StartNoOpWhenStarted ==
    [][\A c \in Callers :
         (started /\ cpc[c] \in {"idle", "st_check"} /\ cpc'[c] # cpc[c]
                  /\ cpc'[c] \in {"st_check", "st_return", "st_spawn"})
         => /\ UNCHANGED <<started, curEvent, setEvents, backoffUntil, wpc>>
            /\ cpc[c] = "st_check" => cpc'[c] = "st_return"]_vars

\* C5 witness: _start_scheduler() has taken the early return on a started and
\* enabled scheduler.
C5_Witness ==
    \E c \in Callers : cpc[c] = "st_return" /\ started /\ SchedulerIsEnabled
                       /\ InStop = {} /\ Cardinality(Spawned) = 1

\* C6: with handler calls that do not overlap, (a) the stop event bound to the
\* global when a thread is started is unset, (b) a worker thread leaves its
\* loop only if the event bound when it was started has been set, that is by a
\* Stop() issued after its Start(), and (c) a worker thread started after a
\* Stop(), at the top of its loop, eventually begins a fetch unless scheduling
\* is disabled, no default customer id is configured, a backoff deadline lies
\* ahead or a later Stop() has set the stop event.
C6_StopThenStartFresh ==
    /\ [][\A w \in Workers :
            (wpc[w] = "unborn" /\ wpc'[w] # "unborn") => curEvent' \notin setEvents']_vars
    /\ [](\A w \in Workers : wpc[w] = "exited" => born[w] \in setEvents)
    /\ \A w \in Workers :
         (wpc[w] = "loop" /\ born[w] > 1)
           ~> \/ wpc[w] = "fetching"
              \/ ~SchedulerIsEnabled
              \/ envCustomer = ""
              \/ BackoffActive
              \/ curEvent \in setEvents

\* C6 witness: a worker thread started after a Stop() is in an automatic fetch.
C6_Witness ==
    \E w \in Workers : born[w] > 1 /\ wpc[w] = "fetching" /\ 1 \in setEvents

\* C7: a worker thread begins a fetch only at a time when the backoff deadline
\* is absent or has passed.
C7_NoAutoFetchInBackoff ==
    [][\A w \in Workers : BeginsAutoFetch(w) => ~BackoffActive]_vars

\* C8: a run_once request with a customer id (from the form or the default)
\* enters the fetch whether or not a backoff deadline lies ahead, and the run it
\* fetched is committed and answered with "Run complete".
C8_ManualBypassesBackoff ==
    [][\A c \in Callers :
         /\ \A customer \in FormCustomers :
              (ControlRunOnce(c, customer) /\ (customer # "" \/ envCustomer # ""))
              => cpc'[c] = "m_fetching"
         /\ (cpc[c] = "m_inserting" /\ cMessage'[c] = "Run complete")
              => (Len(runs') = Len(runs) + 1 /\ runs'[Len(runs')].rows = cRows[c])]_vars

\* C8 witness: a manual run is being fetched while the backoff deadline lies
\* ahead.
C8_Witness ==
    \E c \in Callers : cpc[c] = "m_fetching" /\ BackoffActive

\* C9: when an automatic run fails with a rate-limit message that embeds
\* "Retry in N seconds", the backoff deadline becomes now + N.
C9_RetryDurationUsed ==
    [][\A w \in Workers : \A m \in FetchMessages :
         (WFetchFailWith(w, m) /\ IsRateLimited(m) /\ EmbeddedRetrySeconds(m) # None)
         => backoffUntil' = now + EmbeddedRetrySeconds(m)]_vars

\* C10: when an automatic run fails with a rate-limit message that embeds no
\* retry duration, the backoff deadline becomes now + 3600.
C10_DefaultBackoffUsed ==
    [][\A w \in Workers : \A m \in FetchMessages :
         (WFetchFailWith(w, m) /\ IsRateLimited(m) /\ EmbeddedRetrySeconds(m) = None)
         => backoffUntil' = now + 3600]_vars

\* the message has "Resource has been exhausted" or "429" among its substrings
MentionsRateLimit(m) ==
    \E i \in 1..Len(m) : \E j \in i..Len(m) : SubSeq(m, i, j) \in {MExhausted, M429}

\* C11: a failure of an automatic run is treated as rate-limited exactly when
\* its message contains "Resource has been exhausted" or "429": with neither,
\* the backoff deadline keeps its value and the worker goes on to its wait;
\* with one of them, the handler sets a deadline after now or itself raises.
C11_RateLimitClassification ==
    [][\A w \in Workers : \A m \in FetchMessages \cup StoreMessages :
         (WFetchFailWith(w, m) \/ WPersistFailWith(w, m))
         => /\ IsRateLimited(m) <=> MentionsRateLimit(m)
            /\ ~MentionsRateLimit(m)
                 => backoffUntil' = backoffUntil /\ wpc'[w] = "except"
            /\ MentionsRateLimit(m)
                 => \/ wpc'[w] = "dead"
                    \/ backoffUntil' # None /\ backoffUntil' > now]_vars

\* C11 witness: an automatic run has failed with a message that has neither
\* marker while a backoff deadline was set, and the deadline is still there.
C11_Witness ==
    \E w \in Workers : /\ wpc[w] = "except"
                       /\ wErr[w] \in {MsgTimeout, MsgRetry7NoMarker, MsgLocked}
                       /\ backoffUntil # None

\* C12: no failure of an automatic run ends the worker thread.
C12_WorkerSurvivesFailure == \A w \in Workers : wpc[w] # "dead"

\* a thread leaves _run_once normally / by an exception of the fetch
WRunOnceDone(w) == wpc[w] = "inserting" /\ wpc'[w] = "waiting"
CRunOnceDone(c) == cpc[c] = "m_inserting" /\ cMessage'[c] = "Run complete"
WFetchFailed(w) == wpc[w] = "fetching" /\ wpc'[w] \in {"except", "dead"}
CFetchFailed(c) == cpc[c] = "m_fetching" /\ cpc'[c] = "respond"

\* the rows a fetch may return, followed by one TOTAL row
FetchedPlusTotal == {rows \o <<"TOTAL">> : rows \in FetchResults}

\* C16: a _run_once that returns normally, automatic or manual, has appended
\* exactly one run to the store, whose rows are the rows its fetch returned
\* followed by one TOTAL row; no other step adds a run, and a _run_once whose
\* fetch raises leaves the store and its open transaction as they were.
C16_OneRunPerRunOnce ==
    [][/\ \A w \in Workers :
            /\ WRunOnceDone(w) => /\ runs' = Append(runs, runs'[Len(runs')])
                                  /\ runs'[Len(runs')].rows = wRows[w]
                                  /\ wRows[w] \in FetchedPlusTotal
            /\ WFetchFailed(w) => UNCHANGED <<runs, nextId, txn>>
            /\ (wpc[w] = "fetching" /\ wpc'[w] = "persist")
                 => wRows'[w] \in FetchedPlusTotal
            /\ (wpc[w] \in {"persist", "inserting"} /\ wpc'[w] = "inserting")
                 => wRows'[w] = wRows[w]
       /\ \A c \in Callers :
            /\ CRunOnceDone(c) => /\ runs' = Append(runs, runs'[Len(runs')])
                                  /\ runs'[Len(runs')].rows = cRows[c]
                                  /\ cRows[c] \in FetchedPlusTotal
            /\ CFetchFailed(c) => UNCHANGED <<runs, nextId, txn>>
            /\ (cpc[c] = "m_fetching" /\ cpc'[c] = "m_persist")
                 => cRows'[c] \in FetchedPlusTotal
            /\ (cpc[c] \in {"m_persist", "m_inserting"} /\ cpc'[c] = "m_inserting")
                 => cRows'[c] = cRows[c]
       /\ runs' # runs
            => Cardinality({w \in Workers : WRunOnceDone(w)})
                 + Cardinality({c \in Callers : CRunOnceDone(c)}) = 1]_vars

\* C16 witness: a worker thread has committed the run of its fetch and is in
\* the wait at the end of the loop body.
C16_Witness ==
    \E w \in Workers : /\ wpc[w] = "waiting"
                       /\ wErr[w] = NoError
                       /\ wRows[w] = NoRows
                       /\ backoffUntil = None
                       /\ runs # <<>>
                       /\ runs[Len(runs)].rows \in FetchedPlusTotal
                       /\ runs[Len(runs)].customer_id = envCustomer
                       /\ txn = <<>>

\* C13: the number of runs _count_runs sees equals the number of _persist_run
\* calls that returned, and a call that raises, on the run row, on one of its
\* campaigns rows or on the commit, leaves the table of runs with their rows
\* as it was and no transaction open.
C13_CountMatchesInserts ==
    /\ [](CountRuns(runs) = succeeded)
    /\ [][(ipc \in {"begin", "rows"} /\ ipc' = "idle" /\ succeeded' = succeeded)
            => runs' = runs /\ txn' = <<>>]_vars

\* C13 witness: after one insert that succeeded, an insert has failed once its
\* run row and at least one campaigns row had been written.
C13_Witness ==
    /\ Len(iResult) = 2
    /\ iResult[1] = "raised"
    /\ iResult[2] >= 2
    /\ succeeded = 1
    /\ CountRuns(runs) = 1

\* what a read function returns when all its statements see the table rs
ReadOf(op, rs) ==
    CASE op[1] = "count" -> CountRuns(rs)
      [] op[1] = "page" -> FetchRunsPage(rs, op[2], op[3])
      [] op[1] = "rows" -> FetchRunRows(rs, op[2])
      [] op[1] = "buckets" -> BucketCounts(op[2], rs, op[3])
      [] op[1] = "stats" ->
           StatsDict(StatsRuns(rs), StatsTotalCampaigns(rs), StatsLatestRun(rs),
                     IF rs = <<>> THEN 0
                     ELSE StatsLatestCampaigns(rs, StatsLatestRun(rs)[1].id))

\* C14: what a read function returns is what it would return on the table as
\* it stood at one moment, holding some of the committed runs, each with all
\* of its rows, and nothing of the others.
C14_ReadsSeeWholeRuns ==
    rpc = "done" => \E k \in 0..Len(runs) : rValue = ReadOf(rOp, SubSeq(runs, 1, k))

\* C15: the ids of the stored runs increase strictly in insertion order, and
\* the table of runs only ever grows at its end: no stored run is changed or
\* removed.
C15_IdsIncrease ==
    /\ [](\A i, j \in 1..Len(runs) : i < j => runs[i].id < runs[j].id)
    /\ [][Len(runs') >= Len(runs) /\ SubSeq(runs', 1, Len(runs)) = runs]_vars

\* C15 witness: two runs are stored, one of three inserts failed, and the last
\* insert succeeded.
C15_Witness ==
    /\ Len(runs) = 2
    /\ calls = 3
    /\ ipc = "idle"
    /\ Len(iResult) = 2
    /\ iResult[1] = "returned"
    /\ runs[1].id < runs[2].id

\* the number of rows of a run whose name is not "TOTAL"
NonTotalRows(run) == Cardinality({i \in 1..Len(run.rows) : run.rows[i] # "TOTAL"})

StoredRun(id) == runs[CHOOSE i \in 1..Len(runs) : runs[i].id = id]

TextOf(n) == IF n < 0 THEN <<"-">> \o DecDigits(0 - n) ELSE DecDigits(n)

NumberOf(t) ==
    LET N == {n \in -9..999 : t = TextOf(n) \/ t = <<"+">> \o TextOf(n)}
    IN IF N = {} THEN <<>> ELSE <<CHOOSE n \in N : TRUE>>

Clamp(x, lo, hi) == IF x < lo THEN lo ELSE IF x > hi THEN hi ELSE x

\* the least n with n * d >= a
CeilDiv(a, d) == CHOOSE n \in 0..a : n * d >= a /\ \A m \in 0..a : m * d >= a => n <= m

\* C18: the history page uses the requested page size clamped into [20, 500]
\* and the requested page clamped into [1, totalPages], with totalPages =
\* max(ceil(CountRuns / pageSize), 1); a page or page size that is not a number
\* counts as 1 and 100.
C18_PagingClamped ==
    (rpc = "done" /\ rOp[1] = "history")
      => LET reqPage == IF NumberOf(rOp[2]) = <<>> THEN 1 ELSE NumberOf(rOp[2])[1]
             reqSize == IF NumberOf(rOp[3]) = <<>> THEN 100 ELSE NumberOf(rOp[3])[1]
             size == Clamp(reqSize, 20, 500)
             totalPages == Max(CeilDiv(Len(runs), size), 1)
         IN /\ rValue.page_size = size
            /\ rValue.total_pages = totalPages
            /\ rValue.page = Clamp(reqPage, 1, totalPages)

\* C18 witness: page 99 was requested with page size 20 on a store of 41 runs,
\* and the last page, the third, is shown.
C18_Witness ==
    /\ rpc = "done"
    /\ rOp = <<"history", <<"9", "9">>, <<"2", "0">>>>
    /\ Len(runs) = 41
    /\ rValue.page = 3
    /\ Len(rValue.runs) = 1

\* the ids of all pages of page_size rows, one page after the other
RECURSIVE PagesFrom(_, _, _)
PagesFrom(rs, page, page_size) ==
    LET rows == FetchRunsPage(rs, page, page_size)
    IN IF rows = <<>> THEN <<>>
       ELSE [k \in 1..Len(rows) |-> rows[k].id] \o PagesFrom(rs, page + 1, page_size)

Listing(rs, page_size) == PagesFrom(rs, 1, page_size)

\* SelectSeq for the ids of a set
RECURSIVE Only(_, _)
Only(q, S) == IF q = <<>> THEN <<>>
              ELSE IF q[1] \in S THEN <<q[1]>> \o Only(Tail(q), S)
              ELSE Only(Tail(q), S)

\* C19: a call of _fetch_runs_page leaves the store as it was and returns what
\* the same call returns again right after it, in descending order of id; and
\* no step that changes the table of runs changes the order in which the runs
\* already stored are listed over the pages.
C19_PagesStable ==
    [][/\ (rpc = "idle" /\ rpc' = "done" /\ rOp'[1] = "page")
            => /\ UNCHANGED <<runs, nextId, txn>>
               /\ rValue' = FetchRunsPage(runs', rOp'[2], rOp'[3])
               /\ \A i, j \in 1..Len(rValue') : i < j => rValue'[i].id > rValue'[j].id
       /\ runs' # runs
            => \A page_size \in PageSizeChoices :
                 Only(Listing(runs', page_size), {runs[i].id : i \in 1..Len(runs)})
                   = Listing(runs, page_size)]_vars

\* C19 witness: the second page of two rows has been read from a store of
\* three runs and holds the oldest run.
C19_Witness ==
    /\ rpc = "done"
    /\ rOp = <<"page", 2, 2>>
    /\ Len(runs) = 3
    /\ Len(rValue) = 1
    /\ rValue[1].id = runs[1].id

\* the fields of a timestamp as numbers, cut to the granularity
NumberAt(t, i, j) == DecValue(SubSeq(t, i, j))

BucketKey(granularity, t) ==
    LET date == <<NumberAt(t, 1, 4), NumberAt(t, 6, 7), NumberAt(t, 9, 10)>>
        hour == NumberAt(t, 12, 13)
        minute == NumberAt(t, 15, 16)
    IN CASE granularity = "day" -> date
         [] granularity = "hour" -> Append(date, hour)
         [] granularity = "bucket" -> date \o <<hour, minute - (minute % 5)>>

KeyLess(a, b) ==
    \E i \in 1..Len(a) : a[i] < b[i] /\ \A j \in 1..(i - 1) : a[j] = b[j]

RECURSIVE Padded(_, _)
Padded(n, width) == IF width = 0 THEN <<>>
                    ELSE Append(Padded(n \div 10, width - 1), DigitChar(n % 10))

KeyLabel(k) ==
    Padded(k[1], 4) \o <<"-">> \o Padded(k[2], 2) \o <<"-">> \o Padded(k[3], 2)
      \o (IF Len(k) >= 4 THEN <<" ">> \o Padded(k[4], 2) ELSE <<>>)
      \o (IF Len(k) >= 5 THEN <<":">> \o Padded(k[5], 2) ELSE <<>>)

RECURSIVE Ascending(_)
Ascending(K) ==
    IF K = {} THEN <<>>
    ELSE LET k == CHOOSE x \in K : \A y \in K : y = x \/ KeyLess(x, y)
         IN <<k>> \o Ascending(K \ {k})

\* group the runs by truncated timestamp, count, keep the limit greatest
\* labels, ascending
BucketReference(granularity, rs, limit) ==
    LET keys == {BucketKey(granularity, rs[i].fetched_at) : i \in 1..Len(rs)}
        kept == {k \in keys : Cardinality({h \in keys : KeyLess(k, h)}) < limit}
        asc == Ascending(kept)
    IN [n \in 1..Len(asc) |->
          [label |-> KeyLabel(asc[n]),
           runs |-> Cardinality({i \in 1..Len(rs) :
                       BucketKey(granularity, rs[i].fetched_at) = asc[n]})]]

\* C20: the buckets history() charts for a granularity equal the reference:
\* the runs grouped by truncated fetched_at and counted, the limit greatest
\* labels kept, in ascending order; none on an empty store.
C20_BucketCountsMatchReference ==
    (rpc = "done" /\ rOp[1] = "buckets")
      => /\ rValue = BucketReference(rOp[2], runs, rOp[3])
         /\ runs = <<>> => rValue = <<>>

\* C20 witness: three runs fall into two five-minute buckets, the later one
\* with two runs, and the read with limit 1 has returned that bucket alone.
C20_Witness ==
    /\ rpc = "done"
    /\ rOp = <<"buckets", "bucket", 1>>
    /\ Len(runs) = 3
    /\ Len(rValue) = 1
    /\ rValue[1].runs = 2
    /\ BucketLabel("bucket", runs[1].fetched_at) # rValue[1].label

\* the i-th dot (from 0) of the series built for the call under way
SeriesDot(i) == rValue.dots[i + 1]
SeriesN == Len(rOp[2])
SeriesWidth == rOp[3][1]
SeriesHeight == rOp[3][2]
SeriesPadding == rOp[3][3]
SeriesBuilt == rpc = "done" /\ rOp[1] = "series"

\* v, in hundredths, is the hundredth nearest to num / den
NearestHundredth(v, num, den) ==
    /\ 2 * (v * den - 100 * num) <= den
    /\ 2 * (100 * num - v * den) <= den

\* v, in hundredths, is num / den itself
ExactHundredths(v, num, den) == v * den = 100 * num

\* the coordinates of every dot stand in relation R(v, num, den) to the linear
\* scale: x to padding + (width - 2 padding) i / (n - 1), or padding for a
\* single bucket, and y to padding + (height - 2 padding) (1 - count / max)
SeriesScaled(R(_, _, _)) ==
    \A i \in 0..(SeriesN - 1) :
      /\ IF SeriesN > 1
         THEN R(SeriesDot(i).x,
                SeriesPadding * (SeriesN - 1) + (SeriesWidth - 2 * SeriesPadding) * i,
                SeriesN - 1)
         ELSE SeriesDot(i).x = 100 * SeriesPadding
      /\ R(SeriesDot(i).y,
           SeriesPadding * rValue.max_value
             + (SeriesHeight - 2 * SeriesPadding) * (rValue.max_value - rOp[2][i + 1]),
           rValue.max_value)

\* what the claim says besides the scale: the greatest count is max_value and
\* lies at y = padding, the dots carry the labels and counts of the buckets,
\* the example of three buckets, and the empty series
SeriesFrame ==
    /\ SeriesN > 0
         => /\ \A i \in 1..SeriesN : rOp[2][i] <= rValue.max_value
            /\ \E i \in 1..SeriesN : rOp[2][i] = rValue.max_value
            /\ \A i \in 1..SeriesN :
                 /\ rOp[2][i] = rValue.max_value => rValue.dots[i].y = 100 * SeriesPadding
                 /\ rValue.dots[i].label = SeriesLabels[i]
                 /\ rValue.dots[i].count = rOp[2][i]
            /\ Len(rValue.dots) = SeriesN
            /\ rValue.start_label = SeriesLabels[1]
            /\ rValue.end_label = SeriesLabels[SeriesN]
    /\ (rOp[2] = <<1, 4, 2>> /\ rOp[3] = <<100, 50, 10>>)
         => /\ [i \in 1..3 |-> rValue.dots[i].x] = <<1000, 5000, 9000>>
            /\ rValue.dots[2].y = 1000
            /\ rValue.dots[2].y < rValue.dots[3].y
            /\ rValue.dots[3].y < rValue.dots[1].y
    /\ SeriesN = 0
         => /\ rValue.points = <<>>
            /\ rValue.dots = <<>>
            /\ rValue.start_label = SqlNull
            /\ rValue.end_label = SqlNull
            /\ rValue.max_value = 0

\* C21 as stated: every coordinate of a series equals the linear scale, the
\* greatest count lies at y = padding, the example has x = 10, 50, 90, and
\* the empty bucket list gives no points, null labels and max_value 0.
C21_SeriesExactlyLinear ==
    SeriesBuilt => SeriesScaled(ExactHundredths) /\ SeriesFrame

\* C21 amended: every coordinate of a series is the linear scale rounded to
\* two decimals; the rest as stated.
C21_SeriesLinearRounded ==
    SeriesBuilt => SeriesScaled(NearestHundredth) /\ SeriesFrame

\* C21 witness: the series of the buckets (d1,1), (d2,4), (d3,2) at width 100,
\* height 50, padding 10 has been built, with x = 10, 50, 90.
C21_Witness ==
    /\ SeriesBuilt
    /\ rOp = <<"series", <<1, 4, 2>>, <<100, 50, 10>>>>
    /\ [i \in 1..3 |-> rValue.dots[i].x] = <<1000, 5000, 9000>>
    /\ rValue.max_value = 4

\* C22: a manual _run_once whose fetch or persist raises ends the request with
\* the error, not with "Run complete", and leaves the table of runs as it was
\* with no transaction of that request open; "Run complete" is only ever the
\* answer of the step that commits the run of that request.
C22_ManualFailureSurfaces ==
    [][\A c \in Callers :
         /\ (ManualFetchFail(c) \/ ManualPersistFail(c))
              => /\ cpc'[c] = "respond"
                 /\ cMessage'[c] = "error"
                 /\ runs' = runs
                 /\ \A k \in 1..Len(txn') : txn'[k].owner # <<"request", c>>
         /\ (cMessage'[c] = "Run complete" /\ cMessage[c] # "Run complete")
              => /\ Len(runs') = Len(runs) + 1
                 /\ runs'[Len(runs')].customer_id = cCustomer[c]
                 /\ runs'[Len(runs')].rows = cRows[c]]_vars

\* C22 witness: a run_once request is being answered with the error of its
\* _run_once, and no run is stored.
C22_Witness ==
    \E c \in Callers : /\ cpc[c] = "respond"
                       /\ cAction[c] = "run_once"
                       /\ cMessage[c] = "error"
                       /\ cCustomer[c] # ""
                       /\ runs = <<>>
                       /\ txn = <<>>

\* C23: a run_once request with no customer id in the form and none in the
\* environment is answered "Missing customer_id" without entering _run_once
\* or touching the store; and no thread enters _run_once, nor is a run
\* stored, with a days value that is not positive.
C23_InputsValidated ==
    [][/\ \A c \in Callers :
            /\ (ControlRunOnce(c, "") /\ envCustomer = "")
                 => /\ cpc'[c] = "respond"
                    /\ cMessage'[c] = "Missing customer_id"
                    /\ UNCHANGED <<runs, nextId, txn>>
            /\ cpc'[c] = "m_fetching" => cCustomer'[c] # "" /\ SCHEDULER_DAYS' > 0
       /\ \A w \in Workers : wpc'[w] = "fetching" => SCHEDULER_DAYS' > 0
       /\ \A i \in 1..Len(runs') : runs'[i].days > 0]_vars

\* the worker threads started since the scheduler was last stopped: those
\* born on the Event object now bound to _scheduler_stop_event
StartedSinceStop == {w \in Workers : wpc[w] # "unborn" /\ born[w] = curEvent}

\* C24: the _start_scheduler calls made while the scheduler is stopped start
\* one worker thread between them: at no time have two threads been started
\* since the last stop.
C24_OneWorkerPerStart == Cardinality(StartedSinceStop) <= 1

\* C25: a worker thread that is waiting or at one of the checks of its loop
\* when a backoff deadline is set and the clock has reached it eventually
\* begins a fetch, unless the scheduler is stopped or disabled, no default
\* customer id is configured, or a new deadline has been set ahead of the clock.
C25_BackoffEnds ==
    \A w \in Workers :
      (/\ wpc[w] \in {"waiting", "loop", "chk_enabled", "chk_backoff"}
       /\ backoffUntil # None
       /\ now >= backoffUntil)
        ~> \/ wpc[w] = "fetching"
           \/ ~started
           \/ ~SchedulerIsEnabled
           \/ envCustomer = ""
           \/ BackoffActive

\* C25 witness: no _stop_scheduler() was ever called, a backoff deadline set by
\* a failed automatic run has been reached by the clock, and the worker thread
\* is in a fetch again.
C25_Witness ==
    \E w \in Workers : /\ wpc[w] = "fetching"
                       /\ backoffUntil # None
                       /\ now >= backoffUntil
                       /\ setEvents = {}
                       /\ curEvent = 1
                       /\ started

\* the steps of _stop_scheduler() and the order of its positions
StopStep(c) ==
    StopCheck(c) \/ StopSet(c) \/ StopFlag(c) \/ StopBackoff(c) \/ StopNewEvent(c)

StopRank(pc) ==
    CASE pc = "sp_check" -> 1 [] pc = "sp_set" -> 2 [] pc = "sp_flag" -> 3
      [] pc = "sp_backoff" -> 4 [] pc = "sp_new" -> 5 [] OTHER -> 6

\* C26: a thread inside _stop_scheduler() can always take its next step,
\* wherever the worker threads are; each of its steps moves it one position
\* on, so that it returns after at most five; and none of its steps changes
\* the position, the rows or the wait of a worker thread, the table of runs
\* or the open transaction: a _run_once under way goes on.
C26_StopNeverWaits ==
    [][\A c \in Callers :
         /\ c \in InStop => ENABLED StopStep(c)
         /\ (c \in InStop /\ cpc'[c] # cpc[c])
              => /\ StopStep(c)
                 /\ StopRank(cpc'[c]) > StopRank(cpc[c])
                 /\ UNCHANGED <<wpc, wRows, wErr, wEvent, born, runs, nextId, txn>>]_vars

\* C26 witness: _stop_scheduler() has returned, having set the event of a
\* worker thread that is still inside _run_once with every row of its run
\* inserted and the commit to come.
C26_Witness ==
    \E w \in Workers : \E c \in Callers :
      /\ cpc[c] = "respond"
      /\ cMessage[c] = "Scheduler stopped"
      /\ stopReturned
      /\ ~started
      /\ born[w] \in setEvents
      /\ wpc[w] = "inserting"
      /\ txn # <<>>
      /\ txn[1].owner = <<"worker", w>>
      /\ Len(txn[1].run.rows) = Len(wRows[w])

\* C27: a _stop_scheduler() that finds _scheduler_started true goes on through
\* all of its statements, one of which sets the backoff deadline to None
\* whatever it was; one that finds it false returns at once, and that step
\* leaves _scheduler_started, the stop event with its flag, and the backoff
\* deadline as they were.
C27_StopClearsBackoff ==
    [][\A c \in Callers :
         /\ (cpc[c] = "sp_check" /\ cpc'[c] # cpc[c])
              => IF started
                 THEN cpc'[c] = "sp_set"
                 ELSE /\ cpc'[c] = "respond"
                      /\ UNCHANGED <<started, curEvent, setEvents, backoffUntil>>
         /\ (cpc[c] = "sp_set" /\ cpc'[c] # cpc[c]) => cpc'[c] = "sp_flag"
         /\ (cpc[c] = "sp_flag" /\ cpc'[c] # cpc[c]) => cpc'[c] = "sp_backoff"
         /\ (cpc[c] = "sp_backoff" /\ cpc'[c] # cpc[c])
              => cpc'[c] = "sp_new" /\ backoffUntil' = None]_vars

\* C27 witness: the except clause of a worker thread has set a deadline for a
\* rate-limited failure and is still at its print, and a _stop_scheduler()
\* that found the scheduler started has since set the deadline to None.
C27_Witness ==
    \E w \in Workers : \E c \in Callers :
      /\ wpc[w] = "except"
      /\ wErr[w] \in {Msg429, MsgExhausted}
      /\ cpc[c] = "sp_new"
      /\ backoffUntil = None
      /\ ~started

\* C28: GET / and GET /history enter _start_scheduler(); there, with
\* _scheduler_started false, the handler starts one worker thread and sets
\* _scheduler_started when the environment enables the scheduler, and returns
\* with nothing started and _scheduler_started still false when it does not;
\* with _scheduler_started true it starts nothing.
C28_PageViewStarts ==
    [][\A c \in Callers :
         /\ \A route \in ViewRoutes : BeginView(c, route) => cpc'[c] = "st_check"
         /\ (cAction[c] \in ViewRoutes /\ cpc'[c] # cpc[c])
              => /\ cpc[c] = "st_check"
                   => /\ cpc'[c] = IF ~started /\ envEnabled THEN "st_spawn"
                                   ELSE "st_return"
                      /\ UNCHANGED <<started, wpc>>
                 /\ cpc[c] = "st_spawn"
                   => /\ Cardinality(Spawned') = Cardinality(Spawned) + 1
                      /\ cpc'[c] = "st_flag"
                 /\ cpc[c] = "st_flag" => started' /\ cpc'[c] = "respond"
                 /\ cpc[c] = "st_return"
                   => /\ UNCHANGED <<started, wpc>>
                      /\ cpc'[c] = "respond"
                      /\ ~envEnabled => ~started' \/ forced]_vars

\* C28 witness: after a stop action, a page view has started a new worker
\* thread and set _scheduler_started: the scheduler is started although the
\* last control action was the stop.
C28_Witness ==
    \E c \in Callers : \E w \in Workers :
      /\ cpc[c] = "respond"
      /\ cAction[c] \in ViewRoutes
      /\ started
      /\ ~forced
      /\ 1 \in setEvents
      /\ curEvent > 1
      /\ born[w] = curEvent
      /\ wpc[w] # "unborn"

\* C29: no step of a run_once request, from its arrival to its answer,
\* failing or not, changes the backoff deadline; the deadline changes only in
\* the step by which a worker thread's _run_once raises into the except clause
\* of the loop, or in _stop_scheduler().
C29_ManualKeepsBackoff ==
    [][/\ \A c \in Callers :
            ((cAction[c] = "run_once" \/ cAction'[c] = "run_once") /\ cpc'[c] # cpc[c])
              => backoffUntil' = backoffUntil
       /\ backoffUntil' # backoffUntil
            => \/ \E w \in Workers : /\ wpc[w] \in {"fetching", "persist", "inserting"}
                                     /\ wpc'[w] = "except"
               \/ \E c \in Callers : /\ cAction[c] = "stop"
                                     /\ cpc[c] = "sp_backoff"
                                     /\ cpc'[c] = "sp_new"]_vars

\* C29 witness: a run_once request has failed and is being answered with the
\* error while no backoff deadline is set, and a worker thread is in a fetch.
C29_Witness ==
    \E c \in Callers : \E w \in Workers :
      /\ cpc[c] = "respond"
      /\ cAction[c] = "run_once"
      /\ cMessage[c] = "error"
      /\ backoffUntil = None
      /\ started
      /\ wpc[w] = "fetching"

\* C30: while GOOGLE_ADS_DEFAULT_CUSTOMER_ID is not set, no worker thread is
\* ever inside _run_once or the except clause, or dead; a worker thread that
\* finds no customer id goes to the wait at the end of the loop body; no step
\* of a worker thread changes the table of runs, the open transaction or the
\* backoff deadline, which stays None; and a worker thread leaves its loop
\* only on a set stop event.
C30_NoCustomerNoFetch ==
    [][envCustomer = ""
         => /\ backoffUntil' = None
            /\ \A w \in Workers :
                 /\ wpc'[w] \notin {"fetching", "persist", "inserting", "except", "dead"}
                 /\ (wpc[w] = "get_customer" /\ wpc'[w] # wpc[w])
                      => wpc'[w] = "waiting" /\ wEvent'[w] = curEvent
                 /\ wpc'[w] # wpc[w] => UNCHANGED <<runs, nextId, txn, backoffUntil>>
                 /\ (wpc'[w] = "exited" /\ wpc[w] # "exited")
                      => curEvent \in setEvents]_vars

\* C30 witness: with the scheduler enabled, no backoff deadline and no default
\* customer id, a worker thread has been through its loop and is in the wait
\* at the end of the loop body.
C30_Witness ==
    \E w \in Workers : /\ envCustomer = ""
                       /\ envEnabled
                       /\ schedEnabled
                       /\ started
                       /\ backoffUntil = None
                       /\ wpc[w] = "waiting"
                       /\ wEvent[w] = curEvent
                       /\ now > 0

====
